---- MODULE Spec2Model ----
(***************************************************************************)
(* The todo-app: the OIDC login flow, the credential handling and the      *)
(* protected todo endpoints, in the four programs the repository holds:    *)
(*   bearerClient  the browser client holding the provider's tokens        *)
(*                 (frontend/src/App.tsx 77-349, unnamed/part_001)         *)
(*   bearerApi     the backend verifying a bearer token per request        *)
(*                 (backend/src/index.ts 1-123)                            *)
(*   sessionApi    the backend ending the OIDC flow itself and minting a   *)
(*                 session cookie (unnamed/part_002), with the user        *)
(*                 agent's cookie jar                                      *)
(*   openApi       the backend without any guard                           *)
(*                 (backend/src/index.ts 125-196)                          *)
(* A behaviour is one of them, chosen by `variant` in Init; the peer of     *)
(* each (the provider, the network, whoever sends a request) is the       *)
(* environment: its answers and requests are drawn from small sets.        *)
(*                                                                         *)
(* Encodings. Random values (state, PKCE verifier, nonce) are the number   *)
(* of the login that drew them, one namespace each; 0 is null/undefined.   *)
(* A provider access token is [n, exp]: its serial and its exp claim in    *)
(* seconds; NoTok is null. A refresh token is its serial, 0 for null.      *)
(* Time is Date.now() in milliseconds.                                     *)
(***************************************************************************)
EXTENDS Integers, Sequences, FiniteSets, TLC

\* ---------------------------------------------------------------- bounds
MaxLogins == 2
MaxTokens == 2
MaxTicks == 2
MaxTodos == 2
MaxKeys == 2

\* ------------------------------------------------------ program constants
BUFFER_MS == 60000
MS_PER_S == 1000
SESSION_TTL_S == 2592000
OIDC_ISSUER == "https://auth.snir.sh/application/o/todo-app/"
\* The client id the deployment configures (process.env.OIDC_CLIENT_ID).
CLIENT_ID == "todo-app-client"

Variants == {"bearerClient", "bearerApi", "sessionApi", "openApi"}
\* The API calls that can be in flight at once (loadTodos, add, toggle, remove).
Callers == {1, 2}
\* The steps the clock takes: a millisecond, and the length of the buffer.
TickSteps == {1, BUFFER_MS}
\* Lifetimes (seconds) of the access tokens the provider issues.
Lifetimes == {30, 120}

NoTok == [n |-> 0, exp |-> 0]
\* A JWT as the backends see it: the key that signed it, its iss, aud and exp (s)
\* claims, its nonce (0: none) and sub (0: none), and its email, name and
\* preferred_username claims ("": none or empty, which `||` treats alike). NoJwt is
\* an absent credential.
NoJwt == [key |-> "none", iss |-> "", aud |-> "", exp |-> 0, nonce |-> 0, sub |-> 0,
          email |-> "", name |-> "", preferred_username |-> ""]
\* The user a handler works with: sub (0: undefined), email, name.
NoUser == [sub |-> 0, email |-> "", name |-> ""]
\* A JSON body of a todo request: each field is <<>> when absent, <<v>> when given.
NoBody == [text |-> <<>>, completed |-> <<>>]
\* No request to a protected endpoint yet. `out` is the rows the answer carries.
NoHttp == [method |-> "", cred |-> NoJwt, id |-> 0, body |-> NoBody,
           status |-> 0, error |-> "", db |-> FALSE, out |-> <<>>, kid |-> 0,
           user |-> NoUser]
NoSent == [by |-> 0, tok |-> NoTok, got |-> NoTok]

VARIABLES
  variant,    \* which program this behaviour is
  now,        \* Date.now(), ms
  ticks,      \* clock steps taken
  creds,      \* client: _accessToken, _refreshToken, _user, sessionStorage access_token/refresh_token
  flow,       \* client: sessionStorage pkce_verifier / auth_state
  config,     \* the discovery cache (_config / oidcConfig): the document it holds, NoDoc when unset
  nav,        \* client: where the page is: app, login (login() awaiting), logout, away (at the provider)
  authed,     \* client: React state `authed`
  pc,         \* client: each API call's position in apiFetch/getAccessToken/refreshAccessToken
  usedRt,     \* client: the refresh_token each call's pending POST carries
  sent,       \* client: the /api/todos request the last step sent (NoSent: none): the
              \* call it is of, its bearer token, and the token the refresh of that call
              \* had just stored (NoTok: the call did not refresh)
  issued,     \* provider: tokens issued
  logins,     \* login flows started
  authz,      \* the last authorization redirect's query
  cb,         \* the callback that ran last, until the program does anything else: its
              \* query, what the holder held before (stored*) and after (left*), the token
              \* POSTs it made and whether the answer was 2xx (exchangeOk), the
              \* code_verifier and ID token it handled, whether it stored
              \* tokens / answered with a session cookie (credSet), and its result
  refreshFailed, \* client: a refresh failed since the last successful callback
  jar,        \* session variant: the user agent's cookies auth_state, auth_nonce, session
  jwks,       \* backend: the key ids in the key-set cache, {} before the first fetch
  http,       \* backend: the last request to a protected endpoint and its answer
  todos,      \* database: the rows of table todos
  nextId,     \* database: the ids the SERIAL column has handed out
  rowCap,     \* how many rows the requests of this behaviour may create
  kid         \* provider: the id of the key it signs tokens with

vars == <<variant, now, ticks, creds, flow, config, nav, authed, pc, usedRt, sent,
          issued, logins, authz, cb, refreshFailed, jar, jwks, http,
          todos, nextId, rowCap, kid>>

\* ------------------------------------------------------- OIDC discovery
\* The discovery cache when unset, and the answers a discovery fetch can get: the
\* provider's document, the document after the provider has changed it, a body
\* that is not JSON, no answer at all.
NoDoc == "unset"
Document == "openid-configuration"
Documents == {Document, "openid-configuration (changed)"}
Discoveries == Documents \cup {"invalid JSON", "unreachable"}

\* getOIDCConfig() with the cache at `cache` and the fetch, if it makes one, answered
\* d: whether it throws (fetch() or res.json() rejects), and the cache afterwards.
getOIDCConfigThrows(cache, d) == cache = NoDoc /\ d \notin Documents

getOIDCConfig(cache, d) ==
  IF cache # NoDoc THEN cache
  ELSE IF d \in Documents THEN d
  ELSE NoDoc

\* ------------------------------------------------------------ PKCE helpers
\* createPKCE: challenge = base64url(sha256(verifier)); the digest is one-way, so the
\* challenge of verifier v is a value of its own, equal only for equal verifiers.
S256(verifier) == <<"S256", verifier>>

NoChallenge == <<"none", 0>>

\* -------------------------------------------------- token storage (client)
NoCreds == [accessToken |-> NoTok, refreshToken |-> 0, user |-> 0,
            ss_access |-> NoTok, ss_refresh |-> 0]

\* storeTokens(access, refresh): refresh = 0 is `undefined`. _user is decoded from
\* the access token's payload: the token's serial stands for its claims.
storeTokens(c, access, refresh) ==
  [accessToken |-> access,
   ss_access |-> access,
   refreshToken |-> IF refresh # 0 THEN refresh ELSE c.refreshToken,
   ss_refresh |-> IF refresh # 0 THEN refresh ELSE c.ss_refresh,
   user |-> access.n]

clearTokens(c) == NoCreds

\* A faulty isTokenExpired without the 60 s buffer; C8 tells it from the real one.
isTokenExpired_NoBuffer(token, t) == token.exp * MS_PER_S < t

\* isTokenExpired(token) at Date.now() = t
isTokenExpired(token, t) == token.exp * MS_PER_S < t + BUFFER_MS

isAuthenticated(c, t) ==
  c.accessToken # NoTok /\ (~isTokenExpired(c.accessToken, t) \/ c.refreshToken # 0)

\* getUser(): _user, 0 for null.
getUser(c, t) ==
  IF c.accessToken = NoTok THEN 0
  ELSE IF isTokenExpired(c.accessToken, t) /\ c.refreshToken = 0 THEN 0
  ELSE c.user

\* The module-level `let`s, evaluated when the script loads.
loadModule(c) == [c EXCEPT !.accessToken = c.ss_access, !.refreshToken = c.ss_refresh, !.user = 0]

\* ------------------------------------------------------------ the provider
\* What the token endpoint answers a POST: res.ok, and in a 2xx body the access
\* token's lifetime and whether a refresh_token comes with it.
TokenResponses == [ok : BOOLEAN, ttl : Lifetimes, rt : BOOLEAN]
Rejected == [ok |-> FALSE, ttl |-> 30, rt |-> FALSE]

\* The access token a 2xx answer carries, issued at time t as the k-th token.
issuedToken(k, t, r) == [n |-> k, exp |-> (t \div MS_PER_S) + r.ttl]
issuedRefresh(k, r) == IF r.rt THEN k ELSE 0

\* ------------------------------------------------- callback bookkeeping
\* A callback request's query: 0 is an absent parameter.
Queries == [code : {0, 1}, state : 0..MaxLogins, error : {0, 1}]

NoFlow == [ss_verifier |-> 0, ss_state |-> 0]
NoAuthz == [state |-> 0, challenge |-> NoChallenge, method |-> "", nonce |-> 0]
NoCb == [done |-> FALSE, q |-> [code |-> 0, state |-> 0, error |-> 0],
         storedState |-> 0, storedNonce |-> 0, posts |-> 0, verifier |-> 0,
         credSet |-> FALSE, ok |-> FALSE, leftState |-> 0, leftVerifier |-> 0,
         leftNonce |-> 0, status |-> 0, id |-> NoJwt, exchangeOk |-> FALSE, kid |-> 0]

\* ------------------------------------------------------- client: callback
\* A faulty handleCallback that does not compare the state parameter; C1 tells it
\* from the real one.
handleCallbackStage_NoStateCheck(q, f) ==
  IF q.error # 0 THEN "error"
  ELSE IF q.code = 0 THEN "nocode"
  ELSE IF f.ss_verifier = 0 THEN "noverifier"
  ELSE "exchange"

\* A faulty handleCallback that goes on to the exchange without a stored verifier;
\* C27 tells it from the real one.
handleCallbackStage_NoVerifierCheck(q, f) ==
  IF q.error # 0 THEN "error"
  ELSE IF q.code = 0 THEN "nocode"
  ELSE IF q.state # f.ss_state THEN "state"
  ELSE "exchange"

\* handleCallback up to the exchange: which return it takes.
handleCallbackStage(q, f) ==
  IF q.error # 0 THEN "error"
  ELSE IF q.code = 0 THEN "nocode"
  ELSE IF q.state # f.ss_state THEN "state"
  ELSE IF f.ss_verifier = 0 THEN "noverifier"
  ELSE "exchange"

\* refreshAccessToken once the token endpoint has answered r.
refreshResult(c, r, tok) ==
  IF r.ok THEN storeTokens(c, tok, issuedRefresh(tok.n, r)) ELSE clearTokens(c)

\* A page load of /callback?<q>: the script loads, initAuth runs handleCallback, the
\* token endpoint answers r, and App sets authed. Nothing else runs on that page
\* until initAuth has returned.
LoadCallback(q, r) ==
  /\ variant = "bearerClient"
  /\ r.ok => issued < MaxTokens
  /\ LET c0 == loadModule(creds)
         stage == handleCallbackStage(q, flow)
         posted == stage = "exchange"
         success == posted /\ r.ok
         tok == issuedToken(issued + 1, now, r)
         c1 == IF success THEN storeTokens(c0, tok, issuedRefresh(tok.n, r)) ELSE c0
         f1 == IF success THEN NoFlow ELSE flow
     IN /\ posted \/ r = Rejected
        /\ creds' = c1
        /\ flow' = f1
        /\ config' = IF posted THEN getOIDCConfig(NoDoc, Document) ELSE NoDoc
        /\ issued' = IF success THEN issued + 1 ELSE issued
        /\ authed' = (success \/ isAuthenticated(c1, now))
        /\ refreshFailed' = (refreshFailed /\ ~success)
        /\ cb' = [NoCb EXCEPT !.done = TRUE, !.q = q,
                              !.storedState = flow.ss_state,
                              !.posts = IF posted THEN 1 ELSE 0,
                              !.verifier = IF posted THEN flow.ss_verifier ELSE 0,
                              !.credSet = (c1 # c0), !.ok = success,
                              !.exchangeOk = (posted /\ r.ok),
                              !.leftState = f1.ss_state, !.leftVerifier = f1.ss_verifier]
  /\ nav' = "app"
  /\ pc' = [p \in Callers |-> "idle"]
  /\ usedRt' = [p \in Callers |-> 0]
  /\ sent' = NoSent
  /\ UNCHANGED <<jar, jwks, http, todos, nextId, rowCap, kid>>
  /\ UNCHANGED <<variant, now, ticks, logins, authz>>

\* A page load of any other path: initAuth restores the session, refreshing if the
\* stored token is expired (the token endpoint answers r).
LoadApp(r) ==
  /\ variant = "bearerClient"
  /\ r.ok => issued < MaxTokens
  /\ LET c0 == loadModule(creds)
         fresh == c0.accessToken # NoTok /\ ~isTokenExpired(c0.accessToken, now)
         refreshes == c0.accessToken # NoTok /\ ~fresh /\ c0.refreshToken # 0
         tok == issuedToken(issued + 1, now, r)
         c1 == IF fresh THEN storeTokens(c0, c0.accessToken, c0.refreshToken)
               ELSE IF refreshes THEN refreshResult(c0, r, tok)
               ELSE c0
         ok == fresh \/ (refreshes /\ r.ok)
     IN /\ refreshes \/ r = Rejected
        /\ creds' = c1
        /\ config' = IF refreshes THEN getOIDCConfig(NoDoc, Document) ELSE NoDoc
        /\ issued' = IF refreshes /\ r.ok THEN issued + 1 ELSE issued
        /\ authed' = (ok \/ isAuthenticated(c1, now))
        /\ refreshFailed' = (refreshFailed \/ (refreshes /\ ~r.ok))
  /\ nav' = "app"
  /\ cb' = NoCb
  /\ pc' = [p \in Callers |-> "idle"]
  /\ usedRt' = [p \in Callers |-> 0]
  /\ sent' = NoSent
  /\ UNCHANGED <<jar, jwks, http, todos, nextId, rowCap, kid>>
  /\ UNCHANGED <<variant, now, ticks, flow, logins, authz>>

\* ------------------------------------------------- client: login, logout
\* The authorization redirect login() and logout() build, for the n-th flow.
clientAuthz(n) == [state |-> n, challenge |-> S256(n), method |-> "S256", nonce |-> 0]

\* What login() and logout() put in sessionStorage for the n-th flow.
clientFlow(n) == [ss_verifier |-> n, ss_state |-> n]

\* login() is called (the Sign In button of the unauthenticated view) and awaits
\* getOIDCConfig() and createPKCE().
LoginStart ==
  /\ variant = "bearerClient"
  /\ nav = "app" /\ ~authed
  /\ nav' = "login"
  /\ cb' = NoCb
  /\ sent' = NoSent
  /\ UNCHANGED <<jar, jwks, http, todos, nextId, rowCap, kid>>
  /\ UNCHANGED <<variant, now, ticks, creds, flow, config, authed, pc, usedRt,
                 issued, logins, authz, refreshFailed>>

\* logout() is called (the Sign Out button): clearTokens(), then the same awaits.
LogoutStart ==
  /\ variant = "bearerClient"
  /\ nav = "app" /\ authed
  /\ creds' = clearTokens(creds)
  /\ nav' = "logout"
  /\ cb' = NoCb
  /\ sent' = NoSent
  /\ UNCHANGED <<jar, jwks, http, todos, nextId, rowCap, kid>>
  /\ UNCHANGED <<variant, now, ticks, flow, config, authed, pc, usedRt,
                 issued, logins, authz, refreshFailed>>

\* login() or logout() resumes with its discovery fetch, if it made one, answered
\* d. When getOIDCConfig() throws, the call ends there and the page stays. Else
\* verifier and state are stored and the page leaves for the provider, which ends
\* every call in flight and unloads the module.
Redirect(d) ==
  /\ variant = "bearerClient"
  /\ nav \in {"login", "logout"}
  /\ d \in Discoveries
  /\ config # NoDoc => d = config
  /\ IF getOIDCConfigThrows(config, d)
     THEN /\ nav' = "app"
          /\ UNCHANGED <<logins, flow, authz, config, pc, usedRt>>
     ELSE /\ logins < MaxLogins
          /\ logins' = logins + 1
          /\ flow' = clientFlow(logins + 1)
          /\ authz' = clientAuthz(logins + 1)
          /\ nav' = "away"
          /\ config' = NoDoc
          /\ pc' = [p \in Callers |-> "idle"]
          /\ usedRt' = [p \in Callers |-> 0]
  /\ sent' = NoSent
  /\ UNCHANGED <<jar, jwks, http, todos, nextId, rowCap, kid>>
  /\ UNCHANGED <<variant, now, ticks, creds, authed, issued, cb, refreshFailed>>

\* ------------------------------------------------------ client: API calls
\* A faulty getAccessToken that returns the stored token without asking whether it
\* is expired; C9 tells it from the real one.
getAccessTokenPath_ReturnsStored(c, t) ==
  IF c.accessToken # NoTok THEN "cached"
  ELSE IF c.refreshToken # 0 THEN "refresh"
  ELSE "null"

\* getAccessToken() up to its first await: the cached token, a refresh, or null.
getAccessTokenPath(c, t) ==
  IF c.accessToken # NoTok /\ ~isTokenExpired(c.accessToken, t) THEN "cached"
  ELSE IF c.refreshToken # 0 THEN "refresh"
  ELSE "null"

\* apiFetch of call p once getAccessToken() has returned `token`: the request it
\* sends; for null "No token" is thrown and nothing is sent.
apiFetchSend(p, token, refreshed) ==
  IF token # NoTok THEN [by |-> p, tok |-> token, got |-> refreshed] ELSE NoSent

\* Call p (loadTodos, add, toggle or remove) enters apiFetch. With a fresh token the
\* request goes out at once; with a refresh token the call awaits the discovery
\* document (a fetch when _config is unset) and then the token endpoint.
ApiCall(p) ==
  /\ variant = "bearerClient"
  /\ nav # "away" /\ authed
  /\ pc[p] = "idle"
  /\ LET path == getAccessTokenPath(creds, now)
     IN /\ pc' = [pc EXCEPT ![p] = IF path = "refresh"
                                    THEN (IF config # NoDoc THEN "post" ELSE "config")
                                    ELSE "idle"]
        /\ usedRt' = [usedRt EXCEPT ![p] = IF path = "refresh" /\ config # NoDoc
                                            THEN creds.refreshToken ELSE 0]
        /\ sent' = IF path = "cached" THEN apiFetchSend(p, creds.accessToken, NoTok)
                   ELSE NoSent
  /\ cb' = NoCb
  /\ UNCHANGED <<jar, jwks, http, todos, nextId, rowCap, kid>>
  /\ UNCHANGED <<variant, now, ticks, creds, flow, config, nav, authed,
                 issued, logins, authz, refreshFailed>>

\* Call p's discovery fetch is answered d. A document is assigned to _config and
\* the refresh POST goes out with the _refreshToken of this moment; otherwise
\* getOIDCConfig() throws and the call ends.
ApiConfigDone(p, d) ==
  /\ variant = "bearerClient"
  /\ pc[p] = "config"
  /\ d \in Discoveries
  /\ config' = IF d \in Documents THEN d ELSE config
  /\ pc' = [pc EXCEPT ![p] = IF d \in Documents THEN "post" ELSE "idle"]
  /\ usedRt' = [usedRt EXCEPT ![p] = IF d \in Documents THEN creds.refreshToken ELSE 0]
  /\ sent' = NoSent
  /\ UNCHANGED <<jar, jwks, http, todos, nextId, rowCap, kid>>
  /\ UNCHANGED <<variant, now, ticks, creds, flow, nav, authed,
                 issued, logins, authz, cb, refreshFailed>>

\* The token endpoint answers call p's refresh POST with r; refreshAccessToken
\* stores or clears, getAccessToken returns _accessToken or null, apiFetch sends.
RefreshResponse(p, r) ==
  /\ variant = "bearerClient"
  /\ pc[p] = "post"
  /\ r.ok => (issued < MaxTokens /\ usedRt[p] # 0)
  /\ r.ok \/ r = Rejected
  /\ LET tok == issuedToken(issued + 1, now, r)
         c1 == refreshResult(creds, r, tok)
     IN /\ creds' = c1
        /\ sent' = IF r.ok THEN apiFetchSend(p, c1.accessToken, tok) ELSE NoSent
  /\ issued' = IF r.ok THEN issued + 1 ELSE issued
  /\ refreshFailed' = (refreshFailed \/ ~r.ok)
  /\ pc' = [pc EXCEPT ![p] = "idle"]
  /\ usedRt' = [usedRt EXCEPT ![p] = 0]
  /\ UNCHANGED <<jar, jwks, http, todos, nextId, rowCap, kid>>
  /\ UNCHANGED <<variant, now, ticks, flow, config, nav, authed, logins, authz, cb>>

\* Time passes.
Tick(d) ==
  /\ variant = "bearerClient"
  /\ ticks < MaxTicks
  /\ ticks' = ticks + 1
  /\ now' = now + d
  /\ sent' = NoSent
  /\ UNCHANGED <<jar, jwks, http, todos, nextId, rowCap, kid>>
  /\ UNCHANGED <<variant, creds, flow, config, nav, authed, pc, usedRt,
                 issued, logins, authz, cb, refreshFailed>>

\* ------------------------------------------------------------ jose (JWT)
NoOpt == "<unset>"

\* jose.jwtVerify(token, keys, options) at time t (ms): the signature verifies under
\* one of `keys`, exp is after the current second, and iss / aud equal the option
\* when the option is given.
jwtVerify(token, keys, options, t) ==
  /\ token.key \in keys
  /\ token.exp > t \div MS_PER_S
  /\ options.issuer # NoOpt => token.iss = options.issuer
  /\ options.audience # NoOpt => token.aud = options.audience

\* The provider's signing keys (its JWKS), and the session variant's own key.
jwksKeys == {"provider"}
sessionKey == {"session"}

\* The key ids the provider's jwks_uri answers with while it signs with key k.
jwksUri(k) == {k}

\* getJWKS of the session backend: the key set is fetched when nothing is cached,
\* and the cached one is used from then on.
getJWKS(cache, published) ==
  IF cache = {} THEN published ELSE cache

\* The remote key set of the bearer backend resolving key id k: it is fetched
\* when nothing is cached or no cached key has the id.
jwksClient(cache, published, k) ==
  IF k \in cache THEN cache ELSE published

\* ------------------------------------------------- session backend: OIDC
\* The ID tokens a token response may carry.
IdTokens == [key : {"provider", "attacker"}, iss : {OIDC_ISSUER, "https://evil.example/"},
             aud : {CLIENT_ID, "other-client"}, exp : {0, 300},
             nonce : 0..MaxLogins, sub : {1},
             email : {""}, name : {""}, preferred_username : {""}]

\* The ID token of a response the handler never reads (it returned before).
UnreadId == [key |-> "attacker", iss |-> "https://evil.example/", aud |-> "other-client",
             exp |-> 0, nonce |-> 0, sub |-> 1,
             email |-> "", name |-> "", preferred_username |-> ""]

NoJar == [auth_state |-> 0, auth_nonce |-> 0, session |-> NoJwt]

\* GET /api/auth/login: state and nonce go into two cookies and into the redirect.
sessionAuthz(n) == [state |-> n, challenge |-> NoChallenge, method |-> "", nonce |-> n]

\* The discovery fetch, if the handler makes one, is answered d; when
\* getOIDCConfig() throws the request ends with nothing set.
SessionLogin(d) ==
  /\ variant = "sessionApi"
  /\ d \in Discoveries
  /\ config # NoDoc => d = config
  /\ IF getOIDCConfigThrows(config, d)
     THEN UNCHANGED <<logins, jar, authz>>
     ELSE /\ logins < MaxLogins
          /\ logins' = logins + 1
          /\ jar' = [jar EXCEPT !.auth_state = logins + 1, !.auth_nonce = logins + 1]
          /\ authz' = sessionAuthz(logins + 1)
  /\ config' = getOIDCConfig(config, d)
  /\ cb' = NoCb
  /\ UNCHANGED <<todos, nextId, rowCap, kid>>
  /\ http' = NoHttp
  /\ UNCHANGED <<variant, now, ticks, creds, flow, nav, authed, pc, usedRt, sent,
                 issued, refreshFailed, jwks>>

\* A faulty callback handler that goes on after a non-2xx token response; C11 tells
\* it from the real one.
sessionCallbackStage_NoExchangeCheck(q, cookies, tokenOk, id, t) ==
  IF q.error # 0 THEN "error"
  ELSE IF q.state = 0 \/ q.state # cookies.auth_state THEN "state"
  ELSE IF ~jwtVerify(id, jwksKeys, [issuer |-> OIDC_ISSUER, audience |-> CLIENT_ID], t)
    THEN "verify"
  ELSE IF cookies.auth_nonce # 0 /\ id.nonce # cookies.auth_nonce THEN "nonce"
  ELSE "session"

\* A faulty callback handler that does not look at the error parameter; C10 tells
\* it from the real one.
sessionCallbackStage_NoErrorCheck(q, cookies, tokenOk, id, t) ==
  IF q.state = 0 \/ q.state # cookies.auth_state THEN "state"
  ELSE IF ~tokenOk THEN "exchange"
  ELSE IF ~jwtVerify(id, jwksKeys, [issuer |-> OIDC_ISSUER, audience |-> CLIENT_ID], t) THEN "verify"
  ELSE IF cookies.auth_nonce # 0 /\ id.nonce # cookies.auth_nonce THEN "nonce"
  ELSE "session"

\* GET /api/auth/callback: the return the handler takes, given the query, the
\* request's cookies, whether the token endpoint answered 2xx and the ID token.
sessionCallbackStage(q, cookies, tokenOk, id, t) ==
  IF q.error # 0 THEN "error"
  ELSE IF q.state = 0 \/ q.state # cookies.auth_state THEN "state"
  ELSE IF ~tokenOk THEN "exchange"
  ELSE IF ~jwtVerify(id, jwksKeys, [issuer |-> OIDC_ISSUER, audience |-> CLIENT_ID], t)
    THEN "verify"
  ELSE IF cookies.auth_nonce # 0 /\ id.nonce # cookies.auth_nonce THEN "nonce"
  ELSE "session"

\* The status each return answers with.
sessionCallbackStatus(stage) ==
  CASE stage = "error" -> 302
    [] stage = "state" -> 400
    [] stage = "exchange" -> 500
    [] stage = "verify" -> 400
    [] stage = "nonce" -> 400
    [] OTHER -> 302

\* The user both backends make of a verified payload: sub as it is, email || "",
\* name || preferred_username || "".
userOf(payload) ==
  [sub |-> payload.sub, email |-> payload.email,
   name |-> IF payload.name # "" THEN payload.name ELSE payload.preferred_username]

\* A faulty session token with the name claim alone, without the fallback to
\* preferred_username; C23 tells it from the real one.
mintSession_NoFallback(id, t) ==
  [NoJwt EXCEPT !.key = "session", !.sub = id.sub, !.email = id.email, !.name = id.name,
                !.exp = (t \div MS_PER_S) + SESSION_TTL_S]

\* The session JWT the callback signs from the verified ID token: the claims sub,
\* email and name, and exp 30 days after iat.
mintSession(id, t) ==
  [NoJwt EXCEPT !.key = "session", !.sub = userOf(id).sub, !.email = userOf(id).email,
                !.name = userOf(id).name,
                !.exp = (t \div MS_PER_S) + SESSION_TTL_S]

SessionCallback(q, tokenOk, id, k) ==
  /\ variant = "sessionApi"
  /\ k \in 1..kid
  /\ LET claims == sessionCallbackStage(q, jar, tokenOk, id, now)
         verified == claims \in {"verify", "nonce", "session"}
         keys == IF verified THEN getJWKS(jwks, jwksUri(kid)) ELSE jwks
         stage == IF verified /\ k \notin keys THEN "verify" ELSE claims
         posted == stage \notin {"error", "state"}
         jar1 == IF stage = "session"
                 THEN [auth_state |-> 0, auth_nonce |-> 0, session |-> mintSession(id, now)]
                 ELSE jar
     IN /\ posted \/ ~tokenOk
        /\ verified \/ id = UnreadId
        /\ (verified /\ id.key = "provider") \/ k = kid
        /\ jar' = jar1
        /\ config' = IF posted THEN getOIDCConfig(config, Document) ELSE config
        /\ jwks' = keys
        /\ cb' = [NoCb EXCEPT !.done = TRUE, !.q = q,
                              !.storedState = jar.auth_state,
                              !.storedNonce = jar.auth_nonce,
                              !.posts = IF posted THEN 1 ELSE 0,
                              !.credSet = (stage = "session"), !.ok = (stage = "session"),
                              !.exchangeOk = (posted /\ tokenOk),
                              !.kid = k,
                              !.leftState = jar1.auth_state, !.leftNonce = jar1.auth_nonce,
                              !.status = sessionCallbackStatus(stage),
                              !.id = IF verified THEN id ELSE NoJwt]
  /\ UNCHANGED <<todos, nextId, rowCap, kid>>
  /\ http' = NoHttp
  /\ UNCHANGED <<variant, now, ticks, creds, flow, nav, authed, pc, usedRt, sent,
                 issued, logins, authz, refreshFailed>>

\* GET /api/auth/logout: the session cookie is deleted.
SessionLogout ==
  /\ variant = "sessionApi"
  /\ jar' = [jar EXCEPT !.session = NoJwt]
  /\ config' = getOIDCConfig(config, Document)
  /\ cb' = NoCb
  /\ UNCHANGED <<todos, nextId, rowCap, kid>>
  /\ http' = NoHttp
  /\ UNCHANGED <<variant, now, ticks, creds, flow, nav, authed, pc, usedRt, sent,
                 issued, logins, authz, refreshFailed, jwks>>

\* The user agent drops one of the flow's cookies: it expired (maxAge 300), was
\* evicted or was cleared. Each cookie is held on its own.
DropCookie(k) ==
  /\ variant = "sessionApi"
  /\ k \in {"auth_state", "auth_nonce"}
  /\ jar[k] # 0
  /\ jar' = [jar EXCEPT ![k] = 0]
  /\ cb' = NoCb
  /\ UNCHANGED <<todos, nextId, rowCap, kid>>
  /\ http' = NoHttp
  /\ UNCHANGED <<variant, now, ticks, creds, flow, config, nav, authed, pc, usedRt, sent,
                 issued, logins, authz, refreshFailed, jwks>>

\* ------------------------------------------------ backends: the guard
\* Tokens the provider signs for a user, valid in every claim the backends verify,
\* over the identity claims they may carry or lack.
ProfileTokens ==
  [key : {"provider"}, iss : {OIDC_ISSUER}, aud : {CLIENT_ID}, exp : {300},
   nonce : 0..MaxLogins, sub : {0, 1}, email : {"", "ann@example.org"},
   name : {"", "Ann"}, preferred_username : {"", "ann"}]

\* The credentials a request to a protected endpoint may carry: a bearer token in
\* the Authorization header, a `session` cookie, or none.
BearerTokens == [key : {"provider", "attacker"}, iss : {OIDC_ISSUER, "https://evil.example/"},
                 aud : {CLIENT_ID, "other-client"}, exp : {0, 300}, nonce : {0}, sub : {1},
                 email : {""}, name : {""}, preferred_username : {""}]
SessionCookies == [key : {"session", "attacker"}, iss : {""}, aud : {""},
                   exp : {0, SESSION_TTL_S}, nonce : {0}, sub : {1},
                   email : {""}, name : {""}, preferred_username : {""}]

\* requireAuth of the bearer backend: the error it answers 401 with, "" when it
\* calls next().
requireAuthBearer(c, t) ==
  IF c = NoJwt THEN "unauthorized"
  ELSE IF ~jwtVerify(c, jwksKeys, [issuer |-> OIDC_ISSUER, audience |-> NoOpt], t)
    THEN "invalid_token"
  ELSE ""

\* getSession of the session backend: whether it returns a payload.
getSession(c, t) ==
  c # NoJwt /\ jwtVerify(c, sessionKey, [issuer |-> NoOpt, audience |-> NoOpt], t)

\* requireAuth of the session backend.
requireAuthSession(c, t) == IF ~getSession(c, t) THEN "unauthorized" ELSE ""

\* c.set("user", ..) of the middleware that has called next(): the bearer backend
\* builds the user from the payload, the session backend sets the payload itself.
contextUser(v, c) ==
  CASE v = "bearerApi" -> userOf(c)
    [] v = "sessionApi" -> [sub |-> c.sub, email |-> c.email, name |-> c.name]
    [] OTHER -> NoUser

\* The middleware in front of the todo routes of each backend; the second app of
\* index.ts registers its routes without one.
requireAuth(v, c, t) ==
  CASE v = "bearerApi" -> requireAuthBearer(c, t)
    [] v = "sessionApi" -> requireAuthSession(c, t)
    [] OTHER -> ""

\* ------------------------------------------------ backends: todo routes
\* Texts are strings over a blank and a letter; the ones a request may carry.
Texts == {<<>>, <<" ">>, <<"a">>, <<" ", "a", " ">>}

\* String.prototype.trim(): the blanks at both ends are removed.
RECURSIVE trimStart(_)
trimStart(t) == IF t # <<>> /\ Head(t) = " " THEN trimStart(Tail(t)) ELSE t

RECURSIVE trimEnd(_)
trimEnd(t) ==
  IF t # <<>> /\ t[Len(t)] = " " THEN trimEnd(SubSeq(t, 1, Len(t) - 1)) ELSE t

trim(t) == trimEnd(trimStart(t))

\* A request: its method, the :id of its path (0: none), and its JSON body.
Methods == {"GET", "POST", "PATCH", "DELETE"}
Ids == 1..MaxTodos
Bodies == [text : {<<>>} \cup {<<t>> : t \in Texts}, completed : {<<>>, <<TRUE>>, <<FALSE>>}]

\* A faulty listing in ascending order; C16 tells it from the real one.
RECURSIVE orderByCreatedAtAsc(_)
orderByCreatedAtAsc(rows) ==
  IF rows = {} THEN <<>>
  ELSE LET top == CHOOSE r \in rows : \A o \in rows : o.created_at >= r.created_at
       IN <<top>> \o orderByCreatedAtAsc(rows \ {top})

\* SELECT * FROM todos ORDER BY created_at DESC.
RECURSIVE orderByCreatedAtDesc(_)
orderByCreatedAtDesc(rows) ==
  IF rows = {} THEN <<>>
  ELSE LET top == CHOOSE r \in rows : \A o \in rows : o.created_at <= r.created_at
       IN <<top>> \o orderByCreatedAtDesc(rows \ {top})

\* A faulty insert that hands out the id the sequence is at instead of the next
\* one; C14 tells it from the real one.
insertRow_SameId(text, nid) ==
  [id |-> nid, text |-> text, completed |-> FALSE, created_at |-> nid + 1]

\* INSERT INTO todos (text) VALUES ($1) RETURNING *: id from the SERIAL sequence,
\* completed DEFAULT false, created_at DEFAULT NOW(); every insert reads a later
\* clock than the ones before it.
insertRow(text, nid) ==
  [id |-> nid + 1, text |-> text, completed |-> FALSE, created_at |-> nid + 1]

\* A faulty update that writes completed = false when the body gives no completed;
\* C15 tells it from the real one.
updateRow_ResetsCompleted(r, body) ==
  [r EXCEPT !.text = IF body.text # <<>> THEN body.text[1] ELSE @,
            !.completed = IF body.completed # <<>> THEN body.completed[1] ELSE FALSE]

\* UPDATE todos SET <the fields given> WHERE id = $n RETURNING *, on one row.
updateRow(r, body) ==
  [r EXCEPT !.text = IF body.text # <<>> THEN body.text[1] ELSE @,
            !.completed = IF body.completed # <<>> THEN body.completed[1] ELSE @]

\* The route handler behind the guard, on table `rows` with `nid` ids handed out:
\* status, error, whether it queried the database, the rows it answers with, and
\* the table and the sequence afterwards.
todoRoute(m, id, body, rows, nid) ==
  LET same == [rows |-> rows, nextId |-> nid]
      hit == {r \in rows : r.id = id}
  IN CASE m = "GET" ->
            [status |-> 200, error |-> "", db |-> TRUE,
             out |-> orderByCreatedAtDesc(rows)] @@ same
       [] m = "POST" ->
            IF body.text = <<>> \/ trim(body.text[1]) = <<>>
            THEN [status |-> 400, error |-> "text is required", db |-> FALSE,
                  out |-> <<>>] @@ same
            ELSE LET row == insertRow(trim(body.text[1]), nid)
                 IN [status |-> 201, error |-> "", db |-> TRUE, out |-> <<row>>,
                     rows |-> rows \cup {row}, nextId |-> nid + 1]
       [] m = "PATCH" ->
            IF body.text = <<>> /\ body.completed = <<>>
            THEN [status |-> 400, error |-> "nothing to update", db |-> FALSE,
                  out |-> <<>>] @@ same
            ELSE IF hit = {}
            THEN [status |-> 404, error |-> "not found", db |-> TRUE, out |-> <<>>] @@ same
            ELSE LET row == updateRow(CHOOSE r \in hit : TRUE, body)
                 IN [status |-> 200, error |-> "", db |-> TRUE, out |-> <<row>>,
                     rows |-> (rows \ hit) \cup {row}, nextId |-> nid]
       [] OTHER ->
            IF hit = {}
            THEN [status |-> 404, error |-> "not found", db |-> TRUE, out |-> <<>>] @@ same
            ELSE [status |-> 200, error |-> "", db |-> TRUE, out |-> <<>>,
                  rows |-> rows \ hit, nextId |-> nid]

\* A request to /api/todos[/:id] of the backend this behaviour runs.
TodoRequest(m, c, id, body, k) ==
  /\ variant \in {"bearerApi", "sessionApi", "openApi"}
  /\ k \in 1..kid
  /\ (variant = "bearerApi" /\ c.key = "provider") \/ k = kid
  /\ variant = "bearerApi" => c \in BearerTokens \cup ProfileTokens \cup {NoJwt}
  /\ variant = "sessionApi" => c \in SessionCookies \cup {NoJwt, jar.session}
  /\ variant = "sessionApi" /\ c.key = "session" /\ c.exp > 0 => c = jar.session
  /\ variant = "openApi" => c = NoJwt
  /\ m \in {"GET", "POST"} <=> id = 0
  /\ m \in {"GET", "DELETE"} => body = NoBody
  /\ m = "POST" => body.completed = <<>>
  /\ LET keys == IF variant = "bearerApi" /\ c # NoJwt
                 THEN jwksClient(jwks, jwksUri(kid), k) ELSE jwks
         err == IF variant = "bearerApi" /\ c # NoJwt /\ k \notin keys
                THEN "invalid_token" ELSE requireAuth(variant, c, now)
         out == todoRoute(m, id, body, todos, nextId)
     IN /\ err # "" => body = NoBody
        /\ err = "" => out.nextId <= rowCap
        /\ http' = IF err # ""
                   THEN [NoHttp EXCEPT !.method = m, !.cred = c, !.id = id,
                                       !.status = 401, !.error = err, !.kid = k]
                   ELSE [method |-> m, cred |-> c, id |-> id, body |-> body,
                         status |-> out.status, error |-> out.error, db |-> out.db,
                         out |-> out.out, kid |-> k, user |-> contextUser(variant, c)]
        /\ todos' = IF err # "" THEN todos ELSE out.rows
        /\ nextId' = IF err # "" THEN nextId ELSE out.nextId
        /\ jwks' = keys
  /\ cb' = NoCb
  /\ UNCHANGED <<variant, now, ticks, creds, flow, config, nav, authed, pc, usedRt, sent,
                 issued, logins, authz, refreshFailed, jar, rowCap, kid>>

\* GET /api/auth/me of the session backend.
SessionMe(c) ==
  /\ variant = "sessionApi"
  /\ c.key = "session" /\ c.exp > 0 => c = jar.session
  /\ http' = IF getSession(c, now)
             THEN [NoHttp EXCEPT !.method = "ME", !.cred = c, !.status = 200,
                                 !.user = [sub |-> c.sub, email |-> c.email,
                                           name |-> c.name]]
             ELSE [NoHttp EXCEPT !.method = "ME", !.cred = c, !.status = 401,
                                 !.error = "unauthorized"]
  /\ cb' = NoCb
  /\ UNCHANGED <<variant, now, ticks, creds, flow, config, nav, authed, pc, usedRt, sent,
                 issued, logins, authz, refreshFailed, jar, jwks, todos, nextId, rowCap, kid>>

\* The provider starts signing with a new key; its jwks_uri answers with that key
\* from then on.
RotateKey ==
  /\ variant \in {"bearerApi", "sessionApi"}
  /\ kid < MaxKeys
  /\ kid' = kid + 1
  /\ cb' = NoCb
  /\ http' = NoHttp
  /\ UNCHANGED <<variant, now, ticks, creds, flow, config, nav, authed, pc, usedRt, sent,
                 issued, logins, authz, refreshFailed, jar, jwks, todos, nextId, rowCap>>

\* ------------------------------------------------------------------ spec
Init ==
  /\ variant \in Variants
  /\ now = 0
  /\ ticks = 0
  /\ creds = NoCreds
  /\ flow = NoFlow
  /\ config = NoDoc
  /\ nav = "app"
  /\ authed = FALSE
  /\ pc = [p \in Callers |-> "idle"]
  /\ usedRt = [p \in Callers |-> 0]
  /\ sent = NoSent
  /\ issued = 0
  /\ logins = 0
  /\ authz = NoAuthz
  /\ cb = NoCb
  /\ refreshFailed = FALSE
  /\ jar = NoJar
  /\ jwks = {}
  /\ http = NoHttp
  /\ todos = {}
  /\ nextId = 0
  /\ rowCap = 0
  /\ kid = 1

\* The requests and page loads, over every input.
CallbackPage ==
  variant = "bearerClient" /\ \E q \in Queries, r \in TokenResponses : LoadCallback(q, r)

AppPage ==
  variant = "bearerClient" /\ \E r \in TokenResponses : LoadApp(r)

CallbackRequest ==
  variant = "sessionApi"
    /\ \E q \in Queries, tokenOk \in BOOLEAN :
         \E id \in IF sessionCallbackStage(q, jar, tokenOk, UnreadId, now) = "verify"
                    THEN IdTokens ELSE {UnreadId},
            k \in 1..kid :
           SessionCallback(q, tokenOk, id, k)

MeRequest ==
  variant = "sessionApi" /\ \E c \in SessionCookies \cup {NoJwt} : SessionMe(c)

TodosRequest ==
  variant # "bearerClient"
    /\ \E m \in Methods,
          c \in {NoJwt} \cup (IF variant = "bearerApi" THEN BearerTokens
                               ELSE IF variant = "sessionApi" THEN SessionCookies ELSE {}),
          id \in {0} \cup Ids, body \in Bodies, k \in 1..kid :
          TodoRequest(m, c, id, body, k)

Next ==
  \/ CallbackPage
  \/ AppPage
  \/ LoginStart
  \/ LogoutStart
  \/ Redirect(IF config = NoDoc THEN Document ELSE config)
  \/ \E p \in Callers : ApiCall(p)
  \/ \E p \in Callers : ApiConfigDone(p, Document)
  \/ \E p \in Callers, r \in TokenResponses : RefreshResponse(p, r)
  \/ \E d \in TickSteps : Tick(d)
  \/ SessionLogin(IF config = NoDoc THEN Document ELSE config)
  \/ CallbackRequest
  \/ SessionLogout
  \/ \E k \in {"auth_state", "auth_nonce"} : DropCookie(k)
  \/ MeRequest
  \/ TodosRequest

Spec == Init /\ [][Next]_vars

\* ------------------------------------------------------------ store spec
\* The todo routes at work: a guarded backend that is up, with its caches filled
\* and (session variant) a user signed in, serving requests that carry no
\* credential or a valid one and may create MaxTodos rows.
GoodBearer == [key |-> "provider", iss |-> OIDC_ISSUER, aud |-> CLIENT_ID, exp |-> 300,
               nonce |-> 0, sub |-> 1,
               email |-> "", name |-> "", preferred_username |-> ""]

StoreCreds == {NoJwt, GoodBearer, jar.session}

StoreInit ==
  /\ variant \in {"bearerApi", "sessionApi"}
  /\ now = 0
  /\ ticks = 0
  /\ creds = NoCreds
  /\ flow = NoFlow
  /\ config = (IF variant = "sessionApi" THEN Document ELSE NoDoc)
  /\ nav = "app"
  /\ authed = FALSE
  /\ pc = [p \in Callers |-> "idle"]
  /\ usedRt = [p \in Callers |-> 0]
  /\ sent = NoSent
  /\ issued = 0
  /\ logins = 0
  /\ authz = NoAuthz
  /\ cb = NoCb
  /\ refreshFailed = FALSE
  /\ jar = IF variant = "sessionApi"
           THEN [NoJar EXCEPT !.session = mintSession(GoodBearer, now)]
           ELSE NoJar
  /\ kid = 1
  /\ jwks = jwksUri(kid)
  /\ http = NoHttp
  /\ todos = {}
  /\ nextId = 0
  /\ rowCap = MaxTodos

ListTodos == \E c \in StoreCreds : TodoRequest("GET", c, 0, NoBody, kid)

CreateTodo == \E c \in StoreCreds, body \in Bodies : TodoRequest("POST", c, 0, body, kid)

UpdateTodo ==
  \E c \in StoreCreds, id \in Ids, body \in Bodies : TodoRequest("PATCH", c, id, body, kid)

DeleteTodo == \E c \in StoreCreds, id \in Ids : TodoRequest("DELETE", c, id, NoBody, kid)

StoreNext == ListTodos \/ CreateTodo \/ UpdateTodo \/ DeleteTodo

StoreSpec == StoreInit /\ [][StoreNext]_vars

\* --------------------------------------------------------------- key spec
\* The guarded backends while the provider rotates its signing key: requests and
\* callbacks whose token is signed by one of the provider's keys and is valid in
\* every claim.
KeyIdTokens ==
  {id \in IdTokens :
     jwtVerify(id, jwksKeys, [issuer |-> OIDC_ISSUER, audience |-> CLIENT_ID], now)}

KeyInit ==
  /\ Init
  /\ variant \in {"bearerApi", "sessionApi"}

KeyCallback ==
  \E q \in Queries, id \in KeyIdTokens \cup {UnreadId}, k \in 1..kid :
    SessionCallback(q, TRUE, id, k)

KeyTodos == \E k \in 1..kid : TodoRequest("GET", GoodBearer, 0, NoBody, k)

KeyNext ==
  \/ RotateKey
  \/ SessionLogin(IF config = NoDoc THEN Document ELSE config)
  \/ KeyCallback
  \/ KeyTodos

KeySpec == KeyInit /\ [][KeyNext]_vars

\* ---------------------------------------------------------- identity spec
\* The guarded backends given tokens of the provider over every combination of
\* identity claims: logins and callbacks of the session backend, and requests that
\* carry the session cookie, a bearer token or nothing.
IdentityCallback ==
  \E q \in Queries, id \in ProfileTokens \cup {UnreadId} : SessionCallback(q, TRUE, id, kid)

IdentityMe == \E c \in {NoJwt, jar.session} : SessionMe(c)

IdentityTodos ==
  \E c \in {NoJwt, jar.session} \cup {t \in ProfileTokens : t.nonce = 0} :
    TodoRequest("GET", c, 0, NoBody, kid)

IdentityNext ==
  \/ SessionLogin(IF config = NoDoc THEN Document ELSE config)
  \/ IdentityCallback
  \/ IdentityMe
  \/ IdentityTodos

IdentitySpec == KeyInit /\ [][IdentityNext]_vars

\* --------------------------------------------------------- discovery spec
\* The browser client and the session backend with a discovery endpoint that may
\* fail, or answer with a changed document.
DiscoveryInit ==
  /\ Init
  /\ variant \in {"bearerClient", "sessionApi"}

DiscoveryNext ==
  \/ CallbackPage
  \/ AppPage
  \/ LoginStart
  \/ LogoutStart
  \/ \E d \in Discoveries : Redirect(d)
  \/ \E p \in Callers : ApiCall(p)
  \/ \E p \in Callers, d \in Discoveries : ApiConfigDone(p, d)
  \/ \E p \in Callers, r \in TokenResponses : RefreshResponse(p, r)
  \/ \E d \in TickSteps : Tick(d)
  \/ \E d \in Discoveries : SessionLogin(d)
  \/ CallbackRequest
  \/ SessionLogout

DiscoverySpec == DiscoveryInit /\ [][DiscoveryNext]_vars

\* ================================================================ claims

\* C1: a callback whose `state` parameter differs from the state stored at login
\* start (a missing parameter included) fails, makes no request to the token
\* endpoint and stores no credential or session cookie, in the browser flow and in
\* the server flow.
C1_StateMismatchStopsFlow ==
  (cb.done /\ cb.q.state # cb.storedState)
    => (cb.posts = 0 /\ ~cb.ok /\ ~cb.credSet)

\* C1's case: a login is pending, and a callback with a code and another state ran.
C1_Witness ==
  /\ variant = "bearerClient"
  /\ cb.done /\ cb.q.error = 0 /\ cb.q.code # 0
  /\ cb.storedState # 0 /\ cb.q.state # cb.storedState
  /\ cb.posts = 0

\* C2: in the session variant the callback sets the session cookie only if the
\* verified ID token's nonce equals the nonce /api/auth/login issued for the flow.
C2_SessionOnlyWithIssuedNonce ==
  (variant = "sessionApi" /\ cb.done /\ cb.credSet) => cb.id.nonce = authz.nonce

\* The four checks of a provider token at time t (ms).
FourChecks(token, t) ==
  /\ token.key = "provider"
  /\ token.iss = OIDC_ISSUER
  /\ token.aud = CLIENT_ID
  /\ token.exp * MS_PER_S > t

\* A request's credential is absent, not signed by the key the backend trusts, or
\* expired.
Uncredentialed(c, v, t) ==
  \/ c = NoJwt
  \/ c.key # (IF v = "sessionApi" THEN "session" ELSE "provider")
  \/ c.exp <= t \div MS_PER_S

\* C3: in every backend variant, a request to a todo endpoint with no credential
\* or an invalid one is answered 401 and runs no database query.
C3_NoCredentialNoQuery ==
  (http.method \in Methods /\ Uncredentialed(http.cred, variant, now))
    => (http.status = 401 /\ ~http.db)

\* C4: a provider token is accepted (a session minted by the callback, a request
\* admitted by the bearer requireAuth) only if its signature, issuer, audience and
\* expiry all check.
C4_AcceptanceNeedsFourChecks ==
  /\ (variant = "sessionApi" /\ cb.done /\ cb.credSet) => FourChecks(cb.id, now)
  /\ (variant = "bearerApi" /\ http.method \in Methods /\ http.status # 401)
       => FourChecks(http.cred, now)

\* C5: in every variant the authorization redirect carries an S256 code_challenge,
\* and the code exchange carries the verifier of that challenge.
C5_PkceOnEveryFlow ==
  /\ authz # NoAuthz => (authz.method = "S256" /\ authz.challenge # NoChallenge)
  /\ cb.posts > 0 => (cb.verifier # 0 /\ authz.challenge = S256(cb.verifier))

\* C6: after a callback has completed, successfully or not, the flow's state, PKCE
\* verifier and nonce are no longer in their holder.
C6_HolderEmptyAfterCallback ==
  cb.done => (cb.leftState = 0 /\ cb.leftVerifier = 0 /\ cb.leftNonce = 0)

\* C7: once a refresh has failed, the access token, the refresh token and the user
\* are gone from memory and sessionStorage, and getAccessToken() returns null, until
\* a login callback succeeds.
C7_FailedRefreshClearsUntilLogin ==
  refreshFailed => (creds = NoCreds /\ getAccessTokenPath(creds, now) = "null")

\* C8: getAccessToken() entered with a stored token expiring less than 60 s from
\* now does not return it (no request goes out in that step) and, with a refresh
\* token stored, starts one refresh, whose answer ends the call; a token expiring
\* 60 s or more from now is returned at once, with no network call.
C8_SixtySecondBuffer ==
  [][\A p \in Callers :
       /\ (ApiCall(p) /\ creds.accessToken # NoTok) =>
            IF creds.accessToken.exp * MS_PER_S - now < BUFFER_MS
            THEN /\ sent' = NoSent
                 /\ creds.refreshToken # 0 => pc'[p] \in {"config", "post"}
                 /\ creds.refreshToken = 0 => pc'[p] = "idle"
            ELSE /\ sent' = [by |-> p, tok |-> creds.accessToken, got |-> NoTok]
                 /\ pc'[p] = "idle" /\ config' = config /\ issued' = issued
       /\ (pc[p] = "config" /\ pc'[p] # "config") => pc'[p] \in {"post", "idle"}
       /\ (pc[p] = "post" /\ pc'[p] # "post") => pc'[p] = "idle"
    ]_vars

\* C8's case: the stored token expires 59.999 s from now, one millisecond inside the
\* buffer; a call has not sent it and is refreshing.
C8_Witness ==
  /\ sent = NoSent
  /\ creds.accessToken # NoTok /\ creds.refreshToken # 0
  /\ creds.accessToken.exp * MS_PER_S = now + BUFFER_MS - 1
  /\ \E p \in Callers : pc[p] = "post" /\ usedRt[p] = creds.refreshToken

\* C9: under any interleaving of the API calls, a request to /api/todos goes out
\* with nothing of its call in flight, carrying either the stored token, which is 60 s
\* or more from expiry, or the token the call's own refresh has just stored.
C9_NoRequestWithStaleToken ==
  [][sent'.tok # NoTok =>
       LET p == sent'.by
       IN /\ pc'[p] = "idle"
          /\ \/ /\ pc[p] = "idle"
                /\ sent'.tok = creds.accessToken /\ sent'.got = NoTok
                /\ sent'.tok.exp * MS_PER_S >= now + BUFFER_MS
             \/ /\ pc[p] = "post"
                /\ sent'.tok = sent'.got /\ sent'.tok = creds'.accessToken
                /\ sent'.tok.n = issued' /\ issued' = issued + 1
    ]_vars

\* C9's case: a call refreshed and sent its request while another is in flight.
C9_Witness ==
  /\ sent.got # NoTok
  /\ \E q \in Callers : q # sent.by /\ pc[q] = "post"

\* C10: a callback carrying an `error` parameter fails without a code exchange and
\* without storing a credential or setting a session cookie, whatever `code` and
\* `state` it carries.
C10_ProviderErrorStopsFlow ==
  (cb.done /\ cb.q.error # 0) => (cb.posts = 0 /\ ~cb.ok /\ ~cb.credSet)

\* C10's case: error came with a code and the matching state of a pending login.
C10_Witness ==
  /\ variant = "sessionApi"
  /\ cb.done /\ cb.q.error # 0 /\ cb.q.code # 0
  /\ cb.storedState # 0 /\ cb.q.state = cb.storedState

\* C11: a callback whose code exchange the token endpoint answers non-2xx fails, has
\* made exactly one POST, and stores no tokens (browser flow) and sets no session
\* cookie (server flow).
C11_ExchangeFailureStopsFlow ==
  (cb.done /\ cb.posts > 0 /\ ~cb.exchangeOk)
    => (cb.posts = 1 /\ ~cb.ok /\ ~cb.credSet)

\* C11's case: the browser callback of a pending login posted the code and the
\* token endpoint refused it.
C11_Witness ==
  /\ variant = "bearerClient"
  /\ cb.done /\ cb.posts = 1 /\ ~cb.exchangeOk
  /\ cb.storedState # 0 /\ cb.q.state = cb.storedState /\ cb.verifier # 0

\* C12: a credential counts as present only when it is valid: in the client,
\* isAuthenticated() is true and getUser() non-null only with a stored access token
\* whose expiry is ahead; in the session backend /api/auth/me answers a user only
\* for a session cookie signed with the session key whose expiry is ahead.
C12_PresentOnlyIfValid ==
  /\ (variant = "bearerClient" /\ (isAuthenticated(creds, now) \/ getUser(creds, now) # 0))
       => (creds.accessToken # NoTok /\ creds.accessToken.exp * MS_PER_S > now)
  /\ (variant = "sessionApi" /\ http.method = "ME" /\ http.status = 200)
       => (http.cred.key = "session" /\ http.cred.exp > now \div MS_PER_S)

\* C13: every todo in the store has a text that is non-empty and trimmed.
C13_StoredTextsTrimmed ==
  \A r \in todos : r.text # <<>> /\ Head(r.text) # " " /\ r.text[Len(r.text)] # " "

\* C14: an admitted POST with a missing, empty or blank text answers 400 "text is
\* required" and leaves the store as it was; any other answers 201 and adds exactly
\* one todo: the trimmed text, completed false, an id no todo had before.
C14_PostCreatesOneTodo ==
  [][(http'.method = "POST" /\ http'.status # 401) =>
       LET text == http'.body.text
       IN IF text = <<>> \/ \A i \in 1..Len(text[1]) : text[1][i] = " "
          THEN /\ http'.status = 400 /\ http'.error = "text is required"
               /\ todos' = todos /\ nextId' = nextId
          ELSE /\ http'.status = 201
               /\ \E r \in todos' \ todos :
                    /\ todos' = todos \cup {r}
                    /\ r.text = trim(text[1]) /\ r.completed = FALSE
                    /\ r.id \notin 1..nextId /\ r.id \in 1..nextId'
                    /\ http'.out = <<r>>
    ]_vars

\* C14's case: a text with blanks around it was created while the store held a row
\* and an earlier row had been deleted.
C14_Witness ==
  /\ http.method = "POST" /\ http.status = 201
  /\ http.body.text = << <<" ", "a", " ">> >>
  /\ Cardinality(todos) = 1 /\ nextId = 2

\* What a PATCH or DELETE answered 200 has done to the store: the other todos are
\* as they were; a DELETE removed the todo with that id; a PATCH left it in place
\* with the fields the body gives changed and the others as they were.
SuccessTouchesOneTodo ==
  LET id == http'.id
      b == http'.body
      old == CHOOSE r \in todos : r.id = id
  IN /\ \E r \in todos : r.id = id
     /\ {r \in todos' : r.id # id} = {r \in todos : r.id # id}
     /\ nextId' = nextId
     /\ http'.method = "DELETE" => ~\E r \in todos' : r.id = id
     /\ http'.method = "PATCH" =>
          \E new \in todos' :
            /\ {r \in todos' : r.id = id} = {new}
            /\ new.created_at = old.created_at
            /\ new.text = IF b.text # <<>> THEN b.text[1] ELSE old.text
            /\ new.completed = IF b.completed # <<>> THEN b.completed[1] ELSE old.completed
            /\ http'.out = <<new>>

\* C15 as stated: an admitted PATCH or DELETE on an id with no row answers 404, a
\* PATCH with neither text nor completed answers 400, both leaving the store as it
\* was; one answered 200 touches only the todo with that id.
C15_MissingRow404EmptyPatch400 ==
  [][(http'.method \in {"PATCH", "DELETE"} /\ http'.status # 401) =>
       /\ (~\E r \in todos : r.id = http'.id)
            => (http'.status = 404 /\ todos' = todos)
       /\ (http'.method = "PATCH" /\ http'.body = NoBody)
            => (http'.status = 400 /\ todos' = todos)
       /\ http'.status = 200 => SuccessTouchesOneTodo
    ]_vars

\* C15 amended: the 400 comes first. A PATCH with neither field answers 400 whether
\* or not the id has a row; any other PATCH, and a DELETE, answers 404 when the id
\* has no row and 200 when it has one; 400 and 404 leave the store as it was and 200
\* touches only the todo with that id.
C15_EmptyPatch400ThenMissingRow404 ==
  [][(http'.method \in {"PATCH", "DELETE"} /\ http'.status # 401) =>
       IF http'.method = "PATCH" /\ http'.body = NoBody
       THEN http'.status = 400 /\ http'.error = "nothing to update" /\ todos' = todos
       ELSE IF ~\E r \in todos : r.id = http'.id
       THEN http'.status = 404 /\ http'.error = "not found" /\ todos' = todos
       ELSE http'.status = 200 /\ SuccessTouchesOneTodo
    ]_vars

\* C15's case: with two todos in the store, a PATCH giving only a text was answered
\* 200 on a todo that is completed.
C15_Witness ==
  /\ http.method = "PATCH" /\ http.status = 200
  /\ http.body.text # <<>> /\ http.body.completed = <<>>
  /\ Cardinality(todos) = 2
  /\ \E r \in todos : r.id = http.id /\ r.completed

\* C16 as stated: a GET right after a POST answered 201 lists the created todo
\* first, with the text that was submitted.
C16_CreatedListedFirstSameText ==
  [][(http.method = "POST" /\ http.status = 201 /\ http'.method = "GET" /\ http'.status = 200) =>
       /\ http'.out # <<>>
       /\ Head(http'.out).id = http.out[1].id
       /\ Head(http'.out).text = http.body.text[1]
    ]_vars

\* C16 amended: ... with the submitted text trimmed, which is the text the POST
\* answered with; the rest of the list is in descending order of creation.
C16_CreatedListedFirstTrimmedText ==
  [][(http.method = "POST" /\ http.status = 201 /\ http'.method = "GET" /\ http'.status = 200) =>
       /\ http'.out # <<>>
       /\ Head(http'.out) = http.out[1]
       /\ Head(http'.out).text = trim(http.body.text[1])
       /\ Len(http'.out) = Cardinality(todos)
       /\ \A i, j \in 1..Len(http'.out) :
            i < j => http'.out[i].created_at > http'.out[j].created_at
    ]_vars

\* C16's case: a list of two, read right after the second was created from a text
\* with blanks around it.
C16_Witness ==
  /\ http.method = "GET" /\ http.status = 200 /\ Len(http.out) = 2
  /\ http.out[1].id = nextId /\ http.out[1].text = <<"a">>
  /\ http.out[1].created_at > http.out[2].created_at

\* C17: the client does not rest in the authenticated view without a credential:
\* when the app page is up, no call is in flight and no token is stored (a refresh
\* failed, or none was possible), the view is the sign-in view.
C17_NoCredentialShowsSignIn ==
  (variant = "bearerClient" /\ nav = "app" /\ creds = NoCreds
     /\ \A p \in Callers : pc[p] = "idle")
    => ~authed

\* C18: in the bearer and the session backend, a request a protected endpoint
\* rejects, for an absent credential or for an invalid one, is answered 401 with
\* the error "unauthorized".
C18_RejectedIsUnauthorized ==
  (variant \in {"bearerApi", "sessionApi"} /\ http.method # ""
     /\ requireAuth(variant, http.cred, now) # "")
    => (http.status = 401 /\ http.error = "unauthorized")

\* C19: a failed callback ends its login attempt: no later callback of the attempt
\* (the same stored state, verifier, nonce) succeeds, and no attempt has more than
\* one code exchange made for it.
C19_FailedAttemptIsTerminal ==
  [][(cb.done /\ ~cb.ok /\ cb.storedState # 0
        /\ cb'.done /\ cb' # cb /\ cb'.storedState = cb.storedState)
       => (~cb'.ok /\ (cb.posts > 0 => cb'.posts = 0))]_vars

\* C20: a token signed with the provider's current key and valid otherwise is
\* accepted although the cached key set did not hold its key id at the start of
\* the verification: the key set is fetched again, so the cache then holds the id.
C20_NewKeyAcceptedAfterRefetch ==
  /\ (variant = "bearerApi" /\ http.method # "" /\ http.cred # NoJwt /\ http.kid = kid
        /\ requireAuthBearer(http.cred, now) = "")
       => (http.status # 401 /\ kid \in jwks)
  /\ (variant = "sessionApi" /\ cb.done /\ cb.exchangeOk /\ cb.kid = kid
        /\ sessionCallbackStage(cb.q, [auth_state |-> cb.storedState,
                                       auth_nonce |-> cb.storedNonce],
                                TRUE, cb.id, now) = "session")
       => (cb.ok /\ kid \in jwks)

\* C21: token refresh is single-flight: at most one refresh POST is in flight at any
\* time, so no refresh token is in two pending POSTs at once.
C21_RefreshSingleFlight ==
  \A p \in Callers, r \in Callers : (pc[p] = "post" /\ pc[r] = "post") => p = r

\* C22: a discovery fetch that fails leaves the cache unset, and a login() it
\* fails stores no state or verifier and does not redirect; once the cache holds
\* a document, no call starts another discovery fetch and no step of the running
\* page or process changes the cached document.
C22_DiscoveryCachedOnce ==
  [][/\ \A d \in Discoveries :
          (Redirect(d) /\ getOIDCConfigThrows(config, d))
            => (config' = NoDoc /\ flow' = flow /\ authz' = authz /\ nav' # "away")
     /\ \A d \in Discoveries :
          (SessionLogin(d) /\ getOIDCConfigThrows(config, d))
            => (config' = NoDoc /\ jar' = jar /\ authz' = authz)
     /\ \A p \in Callers : (ApiCall(p) /\ config # NoDoc) => pc'[p] # "config"
     /\ \A p \in Callers, d \in Discoveries :
          (ApiConfigDone(p, d) /\ config # NoDoc) => config' = config
     /\ (variant = "sessionApi" /\ config # NoDoc) => config' = config
    ]_vars

\* C23: the session cookie the callback sets is signed with the server's key and
\* carries the claims sub, email and name of the verified ID token and no other
\* (name is the ID token's name, else its preferred_username, else empty), with
\* exp 30 days after issuance; GET /api/auth/me answers a valid cookie with these
\* three fields.
C23_SessionCarriesIdentity ==
  /\ (cb.done /\ cb.ok) =>
       /\ jar.session.key = "session"
       /\ jar.session.sub = cb.id.sub
       /\ jar.session.email = cb.id.email
       /\ jar.session.name
            = (IF cb.id.name # "" THEN cb.id.name ELSE cb.id.preferred_username)
       /\ jar.session.preferred_username = "" /\ jar.session.nonce = 0
       /\ jar.session.iss = "" /\ jar.session.aud = ""
       /\ jar.session.exp = (now \div MS_PER_S) + SESSION_TTL_S
  /\ (http.method = "ME" /\ http.status = 200) =>
       http.user = [sub |-> http.cred.sub, email |-> http.cred.email,
                    name |-> http.cred.name]

\* C23's case: a callback has set the session cookie from an ID token without a
\* name claim, with a preferred_username and an email.
C23_Witness ==
  /\ cb.done /\ cb.ok
  /\ cb.id.name = "" /\ cb.id.preferred_username # "" /\ cb.id.email # ""
  /\ jar.session.name = cb.id.preferred_username

\* C24: the user the bearer requireAuth sets and the payload of every session
\* cookie the callback mints have a sub: a token without a sub claim is not let
\* through and mints no session.
C24_IdentityHasSub ==
  /\ (cb.done /\ cb.ok) => jar.session.sub # 0
  /\ (variant = "bearerApi" /\ http.method # "" /\ http.status # 401)
       => http.user.sub # 0

\* C25: when a refresh is rejected after another refresh, in flight at the same
\* time, has stored new tokens (the stored refresh token is no longer the one the
\* rejected request carried), the rejection leaves the stored tokens as they are.
C25_RejectedRefreshKeepsNewTokens ==
  [][\A p \in Callers :
       (RefreshResponse(p, Rejected) /\ creds.accessToken # NoTok
          /\ creds.refreshToken # usedRt[p])
         => creds' = creds]_vars

\* C26: from the moment logout() has cleared the tokens until it redirects, access
\* token, refresh token and user are absent from memory and from sessionStorage
\* and isAuthenticated() is false, whatever call was in flight.
C26_LogoutIsFinal ==
  nav = "logout" => (creds = NoCreds /\ ~isAuthenticated(creds, now))

\* C27: a callback that finds no stored state (no auth_state in sessionStorage, no
\* auth_state cookie) makes no request to the token endpoint and sets no
\* credential, whatever code and state parameters it carries.
C27_NoPendingFlowNoExchange ==
  (cb.done /\ cb.storedState = 0) => (cb.posts = 0 /\ ~cb.credSet /\ ~cb.ok)

\* C27's case: the browser client has handled a callback with a code and without a
\* state parameter while no state was stored, so the two compared equal.
C27_Witness ==
  /\ variant = "bearerClient"
  /\ cb.done /\ cb.storedState = 0
  /\ cb.q.code # 0 /\ cb.q.state = 0 /\ cb.q.error = 0

====
